---- MODULE Spec2Model ----
(***************************************************************************)
(* Model of the emotion-detection server, src/emotion/server.py:           *)
(* the letterbox preprocessing, the detection pipeline                     *)
(* (detect_faces_and_emotions) and the three HTTP handlers /health,        *)
(* /detect and /detect_batch.                                               *)
(*                                                                         *)
(* Conventions.  Thresholds and confidences are integers in hundredths     *)
(* (0.5 is 50, 0.45 is 45).  Coordinates are integer pixels; the scale     *)
(* ratio r = imgsz / max(h, w) is kept as the exact fraction, so int() and  *)
(* round() are computed on exact rationals (binary floating-point error is  *)
(* not modelled).  The detector's raw output for an image is data attached  *)
(* to the image: the model weights are opaque and deterministic.           *)
(***************************************************************************)
EXTENDS Integers, Sequences, FiniteSets, TLC

VARIABLES
    face_model,     \* global face_model: "None" or "loaded"
    device,         \* global device: "None" or the selected device
    main_pc,        \* position of the process: see Init
    request,        \* the request being handled, or NoRequest
    handler_pc,     \* "idle", "batch_loop" (inside the for loop), "responded"
    i,              \* detect_batch_endpoint: index of the next image (0-based)
    all_results,    \* detect_batch_endpoint: the all_results list
    calls,          \* arguments of every detect_faces_and_emotions call of this request
    response,       \* the response of the handler, or NoResponse
    lb_image,       \* letterbox study: the image shape, <<h, w>>
    lb_point,       \* letterbox study: the original-image point, <<x, y>>
    lb_stage,       \* letterbox study: "start", "forward", "back"
    lb_tensor,      \* letterbox study: the point in tensor space (numerators)
    lb_back,        \* letterbox study: the point mapped back, <<x, y>>
    mono_image,     \* threshold study: the image
    mono_iou,       \* threshold study: the fixed iou_thres
    mono_runs,      \* threshold study: conf_thres -> detections returned
    agg_sdet,       \* aggregation study: the rows of det, scaled back
    agg_boxes,      \* aggregation study: face_boxes, the rows whose crop is kept
    agg_emotions,   \* aggregation study: what detect_emotion returned
    agg_stage,      \* aggregation study: "classified", "combined"
    agg_out,        \* aggregation study: what lines 115-123 produce
    threads         \* concurrency study: each handler thread's position

server_vars == <<face_model, device, main_pc, request, handler_pc, i,
                 all_results, calls, response>>
lb_vars == <<lb_image, lb_point, lb_stage, lb_tensor, lb_back>>
mono_vars == <<mono_image, mono_iou, mono_runs>>
agg_vars == <<agg_sdet, agg_boxes, agg_emotions, agg_stage, agg_out>>
conc_vars == <<threads>>
vars == <<server_vars, lb_vars, mono_vars, agg_vars, conc_vars>>

----------------------------------------------------------------------------
(* Program constants *)

imgsz == 512

DefaultConfThres == 50

DefaultIouThres == 45

\* A batch carries at most MaxBatch images in the model.
MaxBatch == 3

----------------------------------------------------------------------------
(* Arithmetic helpers *)

Max(a, b) == IF a >= b THEN a ELSE b

Min(a, b) == IF a <= b THEN a ELSE b

\* Python's int() of the non-negative rational num/den: truncation.
IntOf(num, den) == num \div den

\* round() of the rational num/den (den > 0), ties to even, as Python's
\* round() and torch.round() do.
Round(num, den) ==
    LET q == num \div den
        rem == num - q * den
    IN  IF 2 * rem < den THEN q
        ELSE IF 2 * rem > den THEN q + 1
        ELSE IF q % 2 = 0 THEN q ELSE q + 1

----------------------------------------------------------------------------
(* Images.  An image is its decoded pixel array as far as the pipeline can  *)
(* tell: its shape, and what the detector's network returns on it (the raw  *)
(* candidates in tensor space, before non-max suppression).  ndim = 2 is a  *)
(* grayscale array (PIL mode L), ndim = 3 an array with three channels.      *)

Cand(x1, y1, x2, y2, c) == [box |-> <<x1, y1, x2, y2>>, conf |-> c]

MkImage(hh, ww, nd, cs, er) ==
    [h |-> hh, w |-> ww, ndim |-> nd, cands |-> cs, emotion_raises |-> er]

ImageIds == {"two_faces", "chain", "no_faces", "gray", "big", "emo_fail"}

ImageTable(id) ==
    CASE id = "two_faces" ->
            \* 640 x 480: r = 0.8, resized to 512 x 384, 64 rows of padding on
            \* top and bottom.  Two faces, a duplicate of the first, one
            \* candidate wholly inside the top padding and one that leaves the
            \* tensor on the right and the image at the bottom.
            MkImage(480, 640, 3,
                    << Cand(300, 150, 400, 260, 60),
                       Cand(100, 100, 200, 220, 90),
                       Cand(105, 102, 205, 222, 70),
                       Cand(50, 10, 150, 50, 80),
                       Cand(450, 400, 560, 470, 55) >>, FALSE)
      [] id = "chain" ->
            \* 512 x 512: r = 1.  Three candidates in a chain of overlaps.
            MkImage(512, 512, 3,
                    << Cand(100, 100, 200, 200, 90),
                       Cand(140, 100, 240, 200, 70),
                       Cand(180, 100, 280, 200, 50) >>, FALSE)
      [] id = "no_faces" ->
            MkImage(300, 400, 3, << >>, FALSE)
      [] id = "gray" ->
            MkImage(480, 640, 2, << Cand(100, 100, 200, 220, 90) >>, FALSE)
      [] id = "big" ->
            \* 1023 x 2048: r = 0.25, resized to 255 x 512.
            MkImage(2048, 1023, 3,
                    << Cand(130, 0, 390, 250, 85),
                       Cand(120, 300, 384, 512, 65) >>, FALSE)
      [] OTHER ->
            \* "emo_fail": the emotion classifier raises on its crops.
            MkImage(512, 512, 3, << Cand(100, 100, 200, 200, 90) >>, TRUE)

----------------------------------------------------------------------------
(* preprocess_image: the letterbox.  *)

\* The shape after cv2.resize: (int(w * r), int(h * r)) with r = imgsz / max(h, w),
\* the image kept as it is when r = 1.
ResizedShape(h, w) ==
    LET m == Max(h, w)
    IN  IF imgsz # m
        THEN [w |-> IntOf(w * imgsz, m), h |-> IntOf(h * imgsz, m)]
        ELSE [w |-> w, h |-> h]

\* int(round(d / 2 - 0.1)) and int(round(d / 2 + 0.1)) for the integer d.
PadBefore(d) == Round(5 * d - 1, 10)

PadAfter(d) == Round(5 * d + 1, 10)

\* The letterbox of an h x w image: the resized shape, the four pads and the
\* side the scale ratio is taken from (scale_ratio = imgsz / max_side).
preprocess_image(h, w) ==
    LET rs == ResizedShape(h, w)
        dw == imgsz - rs.w
        dh == imgsz - rs.h
    IN  [new_w |-> rs.w, new_h |-> rs.h,
         top |-> PadBefore(dh), bottom |-> PadAfter(dh),
         left |-> PadBefore(dw), right |-> PadAfter(dw),
         max_side |-> Max(h, w),
         \* cv2.resize rejects an empty target size
         raised |-> (rs.w = 0 \/ rs.h = 0)]

\* Where the letterbox puts the coordinate v of an axis of length size that
\* cv2.resize brings to new_size and copyMakeBorder shifts by pad: the
\* numerator of v * new_size / size + pad over the denominator size.
ForwardCoord(v, size, new_size, pad) == v * new_size + pad * size

----------------------------------------------------------------------------
(* non_max_suppression (utils.general): confidence filter, then greedy NMS  *)
(* in descending confidence, ties in candidate order.                       *)

Area(b) == Max(b[3] - b[1], 0) * Max(b[4] - b[2], 0)

Inter(a, b) ==
    Max(Min(a[3], b[3]) - Max(a[1], b[1]), 0)
    * Max(Min(a[4], b[4]) - Max(a[2], b[2]), 0)

\* IoU(a, b) > iou_thres / 100
IouExceeds(a, b, iou_thres) ==
    LET in == Inter(a, b)
        un == Area(a) + Area(b) - in
    IN  100 * in > iou_thres * un

RECURSIVE InsertByConf(_, _)
\* c inserted into s (sorted by descending conf) after every element of
\* confidence >= c.conf: the sort is stable.
InsertByConf(s, c) ==
    IF s = << >> THEN << c >>
    ELSE IF Head(s).conf >= c.conf THEN << Head(s) >> \o InsertByConf(Tail(s), c)
    ELSE << c >> \o s

RECURSIVE SortByConf(_)
SortByConf(s) ==
    IF s = << >> THEN << >>
    ELSE InsertByConf(SortByConf(SubSeq(s, 1, Len(s) - 1)), s[Len(s)])

RECURSIVE GreedyNms(_, _)
GreedyNms(s, iou_thres) ==
    IF s = << >> THEN << >>
    ELSE << Head(s) >>
         \o GreedyNms(SelectSeq(Tail(s),
                                LAMBDA c : ~IouExceeds(Head(s).box, c.box, iou_thres)),
                      iou_thres)

non_max_suppression(pred, conf_thres, iou_thres) ==
    GreedyNms(SortByConf(SelectSeq(pred, LAMBDA c : c.conf > conf_thres)), iou_thres)

----------------------------------------------------------------------------
(* scale_coords (utils.general): tensor space back to the original image.   *)

\* A coordinate clipped to the image; a box may end on the right or bottom
\* edge itself (x2 = width, y2 = height).
Clip(v, hi) == Max(0, Min(v, hi))

\* The inverse transform of one coordinate num/den of tensor space: subtract
\* the pad, divide by scale_ratio = imgsz / max_side, round.
InverseCoord(num, den, pad, max_side) ==
    Round((num - pad * den) * max_side, den * imgsz)

\* One coordinate of a box: the inverse transform, clipped to [0, size].
ScaleCoord(v, pad, max_side, size) ==
    Clip(InverseCoord(v, 1, pad, max_side), size)

scale_coords(t, box, h, w) ==
    << ScaleCoord(box[1], t.left, t.max_side, w),
       ScaleCoord(box[2], t.top, t.max_side, h),
       ScaleCoord(box[3], t.left, t.max_side, w),
       ScaleCoord(box[4], t.top, t.max_side, h) >>

----------------------------------------------------------------------------
(* detect_faces_and_emotions *)

\* The number of indices a Python slice a:b selects on an axis of length n.
SliceIndex(a, n) == IF a < 0 THEN Max(a + n, 0) ELSE Min(a, n)

SliceLen(a, b, n) == Max(SliceIndex(b, n) - SliceIndex(a, n), 0)

\* face_img.size of face_img = original_img[y1:y2, x1:x2] (three channels)
CropSize(box, h, w) == SliceLen(box[2], box[4], h) * SliceLen(box[1], box[3], w) * 3

\* A loop that keeps every crop.
ValidFaceRegionAlways(box, h, w) == TRUE

\* line 106: the crop is kept when it holds at least one pixel
ValidFaceRegion(box, h, w) == CropSize(box, h, w) > 0

\* detect_emotion (emotion.py): one (label, class id) per crop, in order; the
\* label embeds the classification confidence when show_conf is true.
EmotionOf(box, show_conf) ==
    LET id == (box[1] + box[2] + box[3] + box[4]) % 7
    IN  << [name |-> id, with_conf |-> show_conf], id >>

detect_emotion(face_boxes, show_conf) ==
    [k \in 1..Len(face_boxes) |-> EmotionOf(face_boxes[k], show_conf)]

\* The two thresholds handed over in the wrong order.
NmsCallSwapped(pred, conf_thres, iou_thres) ==
    non_max_suppression(pred, iou_thres, conf_thres)

\* line 90: the thresholds as handed to non_max_suppression
NmsCall(pred, conf_thres, iou_thres) == non_max_suppression(pred, conf_thres, iou_thres)

\* lines 97-108: the surviving detections scaled back, then the boxes whose
\* crop is not empty, each with the row of det it comes from
ScaledDet(image, det) ==
    LET t == preprocess_image(image.h, image.w)
    IN  [k \in 1..Len(det) |->
            [box |-> scale_coords(t, det[k].box, image.h, image.w),
             conf |-> det[k].conf, row |-> k]]

FaceBoxes(image, sdet) ==
    SelectSeq(sdet, LAMBDA d : ValidFaceRegion(d.box, image.h, image.w))

\* line 120: conf is the variable of the loop of line 103, which has ended:
\* it holds the confidence of the last row of det.
RecordConfidence(sdet, k) == sdet[Len(sdet)].conf

\* lines 115-121: zip(face_boxes, emotions)
Combine(sdet, face_boxes, emotions) ==
    [k \in 1..Min(Len(face_boxes), Len(emotions)) |->
        [box |-> face_boxes[k].box,
         emotion |-> emotions[k][1],
         emotion_id |-> emotions[k][2],
         confidence |-> RecordConfidence(sdet, k)]]

Raised == [raised |-> TRUE, results |-> << >>]

Returned(rs) == [raised |-> FALSE, results |-> rs]

detect_faces_and_emotions(fm, image, conf_thres, iou_thres, show_conf) ==
    IF image.ndim # 3 \/ preprocess_image(image.h, image.w).raised
    THEN Raised            \* preprocess_image: transpose((2, 0, 1)) or cv2.resize
    ELSE IF fm = "None"
    THEN Raised            \* face_model(img): None is not callable
    ELSE LET det == NmsCall(image.cands, conf_thres, iou_thres)
             sdet == ScaledDet(image, det)
             face_boxes == FaceBoxes(image, sdet)
         IN  IF Len(det) = 0 \/ face_boxes = << >>
             THEN Returned(<< >>)
             ELSE IF image.emotion_raises
             THEN Raised
             ELSE Returned(Combine(sdet, face_boxes,
                                   detect_emotion([k \in 1..Len(face_boxes) |->
                                                      face_boxes[k].box], show_conf)))

----------------------------------------------------------------------------
(* Requests.  A parameter of a request is absent, a number (in hundredths)  *)
(* or a text float() rejects; an image source is absent, a string that is   *)
(* not base64, bytes that are no image, or the bytes of an image.           *)

AbsentParam == [kind |-> "absent", val |-> 0]

Num(v) == [kind |-> "num", val |-> v]

TextParam == [kind |-> "text", val |-> 0]

AbsentFlag == [kind |-> "absent", val |-> TRUE]

Flag(b) == [kind |-> "bool", val |-> b]

AbsentPayload == [kind |-> "absent", image |-> "none"]

BadBase64 == [kind |-> "bad_base64", image |-> "none"]

NotImage == [kind |-> "not_image", image |-> "none"]

ImageBytes(id) == [kind |-> "image", image |-> id]

ConfChoices == {AbsentParam, Num(30), Num(80), Num(150), TextParam}

IouChoices == {AbsentParam, Num(30), Num(120)}

FlagChoices == {AbsentFlag, Flag(TRUE), Flag(FALSE)}

FilePayloads == {AbsentPayload, NotImage} \cup {ImageBytes(id) : id \in ImageIds}

Base64Payloads == FilePayloads \cup {BadBase64}

BatchPayloads ==
    {BadBase64, NotImage, ImageBytes("gray"), ImageBytes("emo_fail"),
     ImageBytes("two_faces"), ImageBytes("chain")}

BatchConfChoices == {AbsentParam, Num(80), Num(150), TextParam}

BatchIouChoices == {AbsentParam, Num(30)}

BatchFlagChoices == {AbsentFlag, Flag(FALSE)}

\* POST /detect.  body: "multipart" (a form, with or without the file 'image'),
\* "json" (a JSON body: an object, or null when json_object is false) or "none"
\* (no JSON body at all).  image is the file of a form and the field
\* image_base64 of a JSON object; the parameters are form fields of a form and
\* JSON fields of a JSON object.
DetectRequest(b, o, img, c, u, sc) ==
    [endpoint |-> "detect", body |-> b, json_object |-> o, image |-> img,
     conf_thres |-> c, iou_thres |-> u, show_conf |-> sc]

DetectRequests ==
    {DetectRequest("multipart", FALSE, img, c, u, sc) :
        img \in FilePayloads, c \in ConfChoices, u \in IouChoices, sc \in FlagChoices}
    \cup {DetectRequest("json", TRUE, img, c, u, sc) :
        img \in Base64Payloads, c \in ConfChoices, u \in IouChoices, sc \in FlagChoices}
    \cup {DetectRequest("json", FALSE, AbsentPayload, AbsentParam, AbsentParam, AbsentFlag),
          DetectRequest("none", FALSE, AbsentPayload, AbsentParam, AbsentParam, AbsentFlag)}

\* POST /detect_batch.  images_kind: "list" (images_base64 is the list images),
\* "absent" (no such field) or "number" (a value that cannot be iterated).
BatchRequest(b, k, imgs, c, u, sc) ==
    [endpoint |-> "detect_batch", body |-> b, images_kind |-> k, images |-> imgs,
     conf_thres |-> c, iou_thres |-> u, show_conf |-> sc]

RECURSIVE SeqsUpTo(_, _)
SeqsUpTo(S, n) ==
    IF n = 0 THEN {<< >>}
    ELSE LET shorter == SeqsUpTo(S, n - 1)
         IN  shorter \cup {Append(q, x) : q \in shorter, x \in S}

BatchRequests ==
    {BatchRequest("json", "list", imgs, c, u, sc) :
        imgs \in SeqsUpTo(BatchPayloads, MaxBatch), c \in BatchConfChoices,
        u \in BatchIouChoices, sc \in BatchFlagChoices}
    \cup {BatchRequest("json", "absent", << >>, AbsentParam, AbsentParam, AbsentFlag),
          BatchRequest("json", "number", << >>, AbsentParam, AbsentParam, AbsentFlag),
          BatchRequest("none", "absent", << >>, AbsentParam, AbsentParam, AbsentFlag)}

NoRequest == [endpoint |-> "none"]

NoResponse == [status |-> 0]

ErrorResponse(code, msg) == [status |-> code, body |-> [error |-> msg]]

----------------------------------------------------------------------------
(* Parameter parsing *)

\* float(d.get(name, default)): the value, or a ValueError
FloatOf(p, default) ==
    CASE p.kind = "absent" -> [raised |-> FALSE, val |-> default]
      [] p.kind = "num" -> [raised |-> FALSE, val |-> p.val]
      [] OTHER -> [raised |-> TRUE, val |-> 0]

\* request.form of a /detect request: the fields of a form, empty otherwise
FormField(req, p) == IF req.body = "multipart" THEN p ELSE [p EXCEPT !.kind = "absent"]

\* lines 139-141: where /detect reads its parameters
DetectConfThres(req) == FloatOf(FormField(req, req.conf_thres), DefaultConfThres)

DetectIouThres(req) == FloatOf(FormField(req, req.iou_thres), DefaultIouThres)

\* request.form.get('show_conf', 'true').lower() == 'true'
DetectShowConf(req) ==
    LET f == FormField(req, req.show_conf)
    IN  IF f.kind = "absent" THEN TRUE ELSE f.val

\* lines 184-186: where /detect_batch reads its parameters
BatchConfThres(req) == FloatOf(req.conf_thres, DefaultConfThres)

BatchIouThres(req) == FloatOf(req.iou_thres, DefaultIouThres)

BatchShowConf(req) == IF req.show_conf.kind = "absent" THEN TRUE ELSE req.show_conf.val

CallOf(id, c, u, sc) == [image |-> id, conf_thres |-> c, iou_thres |-> u, show_conf |-> sc]

----------------------------------------------------------------------------
(* detect_endpoint *)

HasFile(req) == req.body = "multipart" /\ req.image.kind # "absent"

\* line 135: 'image' not in request.files and 'image_base64' not in request.json.
\* The second operand is evaluated only without a file; request.json of a
\* request that carries no JSON raises (or is None, and "in None" raises), and
\* so does "in" on a JSON null.
ImageCheck(req) ==
    IF HasFile(req) THEN "provided"
    ELSE IF req.body # "json" \/ ~req.json_object THEN "raised"
    ELSE IF req.image.kind = "absent" THEN "missing"
    ELSE "provided"

\* lines 144-155: the bytes decoded to an array, or an exception
Decoded(payload) ==
    IF payload.kind = "image"
    THEN [raised |-> FALSE, image |-> payload.image]
    ELSE [raised |-> TRUE, image |-> "none"]

\* The handler from line 133 to its return: the response and the calls made
\* into detect_faces_and_emotions.
DetectOutcome(req, fm) ==
    LET chk == ImageCheck(req)
        c == DetectConfThres(req)
        u == DetectIouThres(req)
        sc == DetectShowConf(req)
        dec == Decoded(req.image)
        out == detect_faces_and_emotions(fm, ImageTable(dec.image), c.val, u.val, sc)
    IN  IF chk = "raised"
        THEN [response |-> ErrorResponse(500, "request.json"), calls |-> << >>]
        ELSE IF chk = "missing"
        THEN [response |-> ErrorResponse(400, "No image provided"), calls |-> << >>]
        ELSE IF c.raised \/ u.raised
        THEN [response |-> ErrorResponse(500, "float"), calls |-> << >>]
        ELSE IF dec.raised
        THEN [response |-> ErrorResponse(500, "decode"), calls |-> << >>]
        ELSE [response |->
                 IF out.raised THEN ErrorResponse(500, "pipeline")
                 ELSE [status |-> 200,
                       body |-> [success |-> TRUE, detections |-> out.results,
                                 num_faces |-> Len(out.results)]],
              calls |-> << CallOf(dec.image, c.val, u.val, sc) >>]

----------------------------------------------------------------------------
(* detect_batch_endpoint *)

\* line 180: 'images_base64' not in request.json
BatchCheck(req) ==
    IF req.body # "json" THEN "raised"
    ELSE IF req.images_kind = "absent" THEN "missing"
    ELSE "provided"

\* lines 204-208 and 211-216: the entry of image number idx
OkEntry(idx, results) ==
    [image_index |-> idx, detections |-> results, num_faces |-> Len(results)]

ErrorEntry(idx, msg) ==
    [image_index |-> idx, error |-> msg, detections |-> << >>, num_faces |-> 0]

\* An except branch that reports the image as processed, with no detections.
BatchEntryHidesError(idx, payload, fm, c, u, sc) ==
    LET dec == Decoded(payload)
        out == detect_faces_and_emotions(fm, ImageTable(dec.image), c, u, sc)
    IN  IF dec.raised \/ out.raised THEN OkEntry(idx, << >>)
        ELSE OkEntry(idx, out.results)

\* lines 192-216: one pass of the loop body, with its try/except
BatchEntry(idx, payload, fm, c, u, sc) ==
    LET dec == Decoded(payload)
        out == detect_faces_and_emotions(fm, ImageTable(dec.image), c, u, sc)
    IN  IF dec.raised THEN ErrorEntry(idx, payload.kind)
        ELSE IF out.raised THEN ErrorEntry(idx, "pipeline")
        ELSE OkEntry(idx, out.results)

\* A loop that leaves a failed image out of all_results.
AppendEntryDropsFailed(results, entry) ==
    IF "error" \in DOMAIN entry THEN results ELSE Append(results, entry)

\* lines 204 and 211: all_results.append(...), in either branch
AppendEntry(results, entry) == Append(results, entry)

----------------------------------------------------------------------------
(* The server *)

Devices == {"cpu", "cuda:0"}

\* The module is either run as a script (main_pc = "main_block": lines 230-239
\* are about to run) or imported by a WSGI server or a test client, which
\* serves the module's app without running lines 230-239 (main_pc = "serving"
\* from the start).
Init ==
    /\ face_model = "None"
    /\ device = "None"
    /\ main_pc \in {"main_block", "serving"}
    /\ request = NoRequest
    /\ handler_pc = "idle"
    /\ i = 0
    /\ all_results = << >>
    /\ calls = << >>
    /\ response = NoResponse
    /\ lb_image = << 0, 0 >>
    /\ lb_point = << 0, 0 >>
    /\ lb_stage = "off"
    /\ lb_tensor = << 0, 0 >>
    /\ lb_back = << 0, 0 >>
    /\ mono_image = "none"
    /\ mono_iou = 0
    /\ mono_runs = << >>
    /\ agg_sdet = << >>
    /\ agg_boxes = << >>
    /\ agg_emotions = << >>
    /\ agg_stage = "off"
    /\ agg_out = << >>
    /\ threads = << >>

\* line 233
initialize_models ==
    /\ main_pc = "main_block"
    /\ \E d \in Devices : device' = d
    /\ face_model' = "loaded"
    /\ main_pc' = "initialized"
    /\ UNCHANGED <<request, handler_pc, i, all_results, calls, response, lb_vars, mono_vars, agg_vars, conc_vars>>

\* line 239
app_run ==
    /\ main_pc = "initialized"
    /\ main_pc' = "serving"
    /\ UNCHANGED <<face_model, device, request, handler_pc, i, all_results, calls,
                   response, lb_vars, mono_vars, agg_vars, conc_vars>>

Accepting == main_pc = "serving" /\ handler_pc = "idle"

health_check ==
    /\ Accepting
    /\ request' = [endpoint |-> "health"]
    /\ response' = [status |-> 200, body |-> [status |-> "healthy", device |-> device]]
    /\ handler_pc' = "responded"
    /\ UNCHANGED <<face_model, device, main_pc, i, all_results, calls, lb_vars, mono_vars, agg_vars, conc_vars>>

detect_endpoint ==
    /\ Accepting
    /\ \E req \in DetectRequests :
        LET o == DetectOutcome(req, face_model)
        IN  /\ request' = req
            /\ response' = o.response
            /\ calls' = o.calls
    /\ handler_pc' = "responded"
    /\ UNCHANGED <<face_model, device, main_pc, i, all_results, lb_vars, mono_vars, agg_vars, conc_vars>>

\* lines 179-189: up to the loop
detect_batch_begin ==
    /\ Accepting
    /\ \E req \in BatchRequests :
        LET chk == BatchCheck(req)
            bad == \/ chk = "raised"
                   \/ BatchConfThres(req).raised
                   \/ BatchIouThres(req).raised
                   \/ req.images_kind = "number"
        IN  /\ request' = req
            /\ IF chk = "missing"
               THEN /\ response' = ErrorResponse(400, "No images provided")
                    /\ handler_pc' = "responded"
               ELSE IF bad
               THEN /\ response' = ErrorResponse(500, "exception")
                    /\ handler_pc' = "responded"
               ELSE /\ response' = NoResponse
                    /\ handler_pc' = "batch_loop"
    /\ i' = 0
    /\ all_results' = << >>
    /\ calls' = << >>
    /\ UNCHANGED <<face_model, device, main_pc, lb_vars, mono_vars, agg_vars, conc_vars>>

\* lines 191-216: one image
detect_batch_item ==
    /\ handler_pc = "batch_loop"
    /\ i < Len(request.images)
    /\ LET payload == request.images[i + 1]
           c == BatchConfThres(request).val
           u == BatchIouThres(request).val
           sc == BatchShowConf(request)
       IN  /\ all_results' = AppendEntry(all_results,
                                         BatchEntry(i, payload, face_model, c, u, sc))
           /\ calls' = IF Decoded(payload).raised THEN calls
                       ELSE Append(calls, CallOf(payload.image, c, u, sc))
    /\ i' = i + 1
    /\ UNCHANGED <<face_model, device, main_pc, request, handler_pc, response,
                   lb_vars, mono_vars, agg_vars, conc_vars>>

\* lines 218-225
detect_batch_return ==
    /\ handler_pc = "batch_loop"
    /\ i = Len(request.images)
    /\ response' = [status |-> 200,
                    body |-> [success |-> TRUE, results |-> all_results,
                              total_images |-> Len(request.images)]]
    /\ handler_pc' = "responded"
    /\ UNCHANGED <<face_model, device, main_pc, request, i, all_results, calls,
                   lb_vars, mono_vars, agg_vars, conc_vars>>

\* The response is sent; the handler's locals are gone.
finish_request ==
    /\ handler_pc = "responded"
    /\ handler_pc' = "idle"
    /\ request' = NoRequest
    /\ response' = NoResponse
    /\ i' = 0
    /\ all_results' = << >>
    /\ calls' = << >>
    /\ UNCHANGED <<face_model, device, main_pc, lb_vars, mono_vars, agg_vars, conc_vars>>

Next ==
    \/ initialize_models
    \/ app_run
    \/ health_check
    \/ detect_endpoint
    \/ detect_batch_begin
    \/ detect_batch_item
    \/ detect_batch_return
    \/ finish_request

Spec == Init /\ [][Next]_vars

----------------------------------------------------------------------------
(* Properties of /detect_batch *)

BatchResponded ==
    /\ request.endpoint = "detect_batch"
    /\ handler_pc = "responded"

\* The request carries a list of images and thresholds float() accepts.
BatchProcessable(req) ==
    /\ req.body = "json"
    /\ req.images_kind = "list"
    /\ req.conf_thres.kind # "text"
    /\ req.iou_thres.kind # "text"

\* C1: a /detect_batch request that carries a sequence of N images is answered
\* with exactly N results, result number k carrying image_index k (from 0, in
\* input order), and total_images = N, whichever of the images fail.
C1_OneResultPerImage ==
    (BatchResponded /\ BatchProcessable(request)) =>
        /\ response.status = 200
        /\ Len(response.body.results) = Len(request.images)
        /\ \A k \in 1..Len(response.body.results) :
              response.body.results[k].image_index = k - 1
        /\ response.body.total_images = Len(request.images)

\* Whether processing the payload fails at some stage (decode or pipeline).
PayloadFails(payload, c, u, sc) ==
    \/ payload.kind # "image"
    \/ detect_faces_and_emotions(face_model, ImageTable(payload.image), c, u, sc).raised

C1_Witness ==
    /\ BatchResponded
    /\ response.status = 200
    /\ Len(request.images) = MaxBatch
    /\ "error" \in DOMAIN response.body.results[1]
    /\ "error" \notin DOMAIN response.body.results[2]
    /\ response.body.results[2].num_faces > 0

\* The answer of /detect to the same image uploaded as a file with the same
\* parameters as form fields.
SingleImageResponse(payload, c, u, sc) ==
    DetectOutcome(DetectRequest("multipart", FALSE, payload, Num(c), Num(u), Flag(sc)),
                  face_model).response

\* C2: in /detect_batch an image that fails at any stage gets an entry with
\* error set, detections = [] and num_faces = 0; the loop goes on to the later
\* images; and every other entry is what /detect answers for that image alone
\* under the same parameters.
C2_BatchIsolation ==
    (request.endpoint = "detect_batch" /\ handler_pc \in {"batch_loop", "responded"}
     /\ BatchProcessable(request)) =>
        LET c == BatchConfThres(request).val
            u == BatchIouThres(request).val
            sc == BatchShowConf(request)
        IN  /\ Len(all_results) = i
            /\ handler_pc = "responded" => i = Len(request.images)
            /\ \A k \in 1..Len(all_results) :
                 LET entry == all_results[k]
                     payload == request.images[k]
                     single == SingleImageResponse(payload, c, u, sc)
                 IN  IF PayloadFails(payload, c, u, sc)
                     THEN /\ "error" \in DOMAIN entry
                          /\ entry.detections = << >>
                          /\ entry.num_faces = 0
                          /\ single.status = 500
                     ELSE /\ "error" \notin DOMAIN entry
                          /\ single.status = 200
                          /\ entry.detections = single.body.detections
                          /\ entry.num_faces = single.body.num_faces

\* A failed image in the middle, with processed images before and after it.
C2_Witness ==
    /\ BatchResponded
    /\ response.status = 200
    /\ Len(all_results) = 3
    /\ "error" \notin DOMAIN all_results[1]
    /\ all_results[1].num_faces > 0
    /\ "error" \in DOMAIN all_results[2]
    /\ "error" \notin DOMAIN all_results[3]
    /\ all_results[3].num_faces > 0
    /\ response.body.results = all_results

----------------------------------------------------------------------------
(* Properties of /detect *)

\* initialize_models has run: the requests below are served by the script.
ModelsReady == face_model = "loaded"

DetectResponded ==
    /\ request.endpoint = "detect"
    /\ handler_pc = "responded"

\* The confidence of the detection each emitted box comes from: the rows of
\* det, scaled back, whose crop is kept, in order.
OwnConfidences(call) ==
    LET image == ImageTable(call.image)
        sdet == ScaledDet(image, NmsCall(image.cands, call.conf_thres, call.iou_thres))
        kept == FaceBoxes(image, sdet)
    IN  [k \in 1..Len(kept) |-> kept[k].conf]

\* C3: every record returned by detect_faces_and_emotions carries the
\* detection confidence of the detection whose box it carries.
C3_ConfidenceOfOwnDetection ==
    (DetectResponded /\ response.status = 200) =>
        \A k \in 1..Len(response.body.detections) :
            response.body.detections[k].confidence = OwnConfidences(calls[1])[k]

\* The request supplies neither a file 'image' nor a JSON field 'image_base64'.
NoImageSupplied(req) ==
    /\ ~HasFile(req)
    /\ ~(req.body = "json" /\ req.json_object /\ req.image.kind # "absent")

\* C4: a /detect request that supplies no image (a form without the file, a
\* JSON body without the field, no JSON body at all) is answered 400, never
\* 500, and the pipeline is not run.
C4_MissingImageIs400 ==
    (ModelsReady /\ DetectResponded /\ NoImageSupplied(request)) =>
        /\ response.status = 400
        /\ calls = << >>

\* A threshold as supplied is text float() rejects, or a number outside [0, 1].
InvalidThreshold(p) ==
    \/ p.kind = "text"
    \/ p.kind = "num" /\ (p.val < 0 \/ p.val > 100)

SuppliesInvalidThreshold(req) ==
    /\ req.endpoint \in {"detect", "detect_batch"}
    /\ InvalidThreshold(req.conf_thres) \/ InvalidThreshold(req.iou_thres)

InRange(v) == 0 <= v /\ v <= 100

\* C5: on /detect and /detect_batch a conf_thres or iou_thres that is not a
\* number or lies outside [0, 1] is answered 400 before any image is
\* processed, and the detector is never invoked with an out-of-range
\* threshold.
C5_ThresholdsValidated ==
    ModelsReady =>
        /\ \A k \in 1..Len(calls) :
              InRange(calls[k].conf_thres) /\ InRange(calls[k].iou_thres)
        /\ (handler_pc = "responded" /\ SuppliesInvalidThreshold(request)) =>
              /\ response.status = 400
              /\ calls = << >>

\* The value /detect has to use for a threshold: the one supplied, the default
\* when the request has none.
Supplied(p, default) == IF p.kind = "absent" THEN default ELSE p.val

\* C6: on /detect the parameters conf_thres, iou_thres and show_conf reach the
\* pipeline as supplied, as form fields of an upload or as JSON fields of an
\* image_base64 request; a default is used only for an absent parameter.
C6_ParametersHonoured ==
    (ModelsReady /\ DetectResponded /\ calls # << >>) =>
        /\ calls[1].conf_thres = Supplied(request.conf_thres, DefaultConfThres)
        /\ calls[1].iou_thres = Supplied(request.iou_thres, DefaultIouThres)
        /\ calls[1].show_conf = Supplied(request.show_conf, TRUE)

\* C7: /health answers "healthy", with a device, only once initialize_models
\* has completed; a query while face_model and device are still None sees a
\* state that is not "healthy".
C7_HealthReflectsInitialization ==
    (request.endpoint = "health" /\ handler_pc = "responded") =>
        (response.body.status = "healthy" =>
            /\ face_model # "None"
            /\ device # "None"
            /\ response.body.device = device)

----------------------------------------------------------------------------
(* Boxes *)

BoxInside(box, image) ==
    /\ 0 <= box[1] /\ box[1] < box[3] /\ box[3] <= image.w
    /\ 0 <= box[2] /\ box[2] < box[4] /\ box[4] <= image.h

\* C8: every record returned for a width x height image has
\* 0 <= x1 < x2 <= width and 0 <= y1 < y2 <= height; a detection whose box is
\* empty after rounding and clipping is never emitted.
C8_BoxesInsideImage ==
    /\ (DetectResponded /\ response.status = 200) =>
          \A k \in 1..Len(response.body.detections) :
              BoxInside(response.body.detections[k].box, ImageTable(calls[1].image))
    /\ request.endpoint = "detect_batch" =>
          \A k \in 1..Len(all_results) :
              \A j \in 1..Len(all_results[k].detections) :
                  BoxInside(all_results[k].detections[j].box,
                            ImageTable(request.images[k].image))

\* A response where one surviving detection lay in the padding and was
\* dropped, and one was cut at the right and bottom edges of the image.
C8_Witness ==
    /\ DetectResponded
    /\ response.status = 200
    /\ LET image == ImageTable(calls[1].image)
           det == NmsCall(image.cands, calls[1].conf_thres, calls[1].iou_thres)
       IN  /\ Len(response.body.detections) > 0
           /\ Len(response.body.detections) < Len(det)
           /\ \E k \in 1..Len(response.body.detections) :
                 /\ response.body.detections[k].box[3] = image.w
                 /\ response.body.detections[k].box[4] = image.h

----------------------------------------------------------------------------
(* The threshold study: detect_faces_and_emotions on one image, at one       *)
(* iou_thres, for several conf_thres.                                        *)

MonoPool ==
    << Cand(100, 164, 200, 264, 90),
       Cand(140, 164, 240, 264, 70),
       Cand(180, 164, 280, 264, 70),
       Cand(220, 164, 320, 264, 50),
       Cand(50, 10, 150, 50, 80),
       Cand(450, 400, 560, 470, 60) >>

RECURSIVE Pick(_, _, _)
\* The candidates of seq whose index is in idx, in the order of seq.
Pick(seq, idx, k) ==
    IF k > Len(seq) THEN << >>
    ELSE (IF k \in idx THEN << seq[k] >> ELSE << >>) \o Pick(seq, idx, k + 1)

MonoImages ==
    {MkImage(480, 640, 3, Pick(MonoPool, idx, 1), FALSE) : idx \in SUBSET (1..Len(MonoPool))}

MonoIous == {30, 45, 70}

ConfLevels == {20, 55, 75, 85}

NotRun == [run |-> FALSE, results |-> << >>]

MonoInit ==
    /\ face_model = "loaded"
    /\ device = "cpu"
    /\ main_pc = "study"
    /\ request = NoRequest
    /\ handler_pc = "idle"
    /\ i = 0
    /\ all_results = << >>
    /\ calls = << >>
    /\ response = NoResponse
    /\ lb_image = << 0, 0 >>
    /\ lb_point = << 0, 0 >>
    /\ lb_stage = "off"
    /\ lb_tensor = << 0, 0 >>
    /\ lb_back = << 0, 0 >>
    /\ mono_image \in MonoImages
    /\ mono_iou \in MonoIous
    /\ mono_runs = [c \in ConfLevels |-> NotRun]
    /\ agg_sdet = << >>
    /\ agg_boxes = << >>
    /\ agg_emotions = << >>
    /\ agg_stage = "off"
    /\ agg_out = << >>
    /\ threads = << >>

mono_detect ==
    /\ \E c \in ConfLevels :
        /\ ~mono_runs[c].run
        /\ mono_runs' =
              [mono_runs EXCEPT ![c] =
                  [run |-> TRUE,
                   results |-> detect_faces_and_emotions(face_model, mono_image, c,
                                                         mono_iou, TRUE).results]]
    /\ UNCHANGED <<server_vars, lb_vars, mono_image, mono_iou, agg_vars, conc_vars>>

MonoNext == mono_detect

SpecMono == MonoInit /\ [][MonoNext]_vars

BoxesOf(results) == {results[k].box : k \in 1..Len(results)}

\* C9: for a fixed image and a fixed iou_thres, raising conf_thres never
\* increases num_faces: the detections that survive at the higher conf_thres
\* are among those that survive at the lower one.
C9_ConfThresMonotone ==
    \A lo \in ConfLevels, hi \in ConfLevels :
        (lo < hi /\ mono_runs[lo].run /\ mono_runs[hi].run) =>
            /\ Len(mono_runs[hi].results) <= Len(mono_runs[lo].results)
            /\ BoxesOf(mono_runs[hi].results) \subseteq BoxesOf(mono_runs[lo].results)

\* Two runs on an image where NMS removes a candidate at the lower threshold
\* and the higher threshold removes some, not all, of the faces.
C9_Witness ==
    \E lo \in ConfLevels, hi \in ConfLevels :
        /\ lo < hi /\ mono_runs[lo].run /\ mono_runs[hi].run
        /\ Len(mono_runs[hi].results) > 0
        /\ Len(mono_runs[hi].results) < Len(mono_runs[lo].results)
        /\ Len(NmsCall(mono_image.cands, lo, mono_iou))
              < Len(SelectSeq(mono_image.cands, LAMBDA c : c.conf > lo))

----------------------------------------------------------------------------
(* The letterbox study: a point of the original image taken through          *)
(* preprocess_image's transform and back through the inverse transform.      *)

LbSides == {300, 480, 512, 640, 1023, 2048}

LbCoords(size) == {0, size \div 2, size - 1}

LbInit ==
    /\ face_model = "loaded"
    /\ device = "cpu"
    /\ main_pc = "study"
    /\ request = NoRequest
    /\ handler_pc = "idle"
    /\ i = 0
    /\ all_results = << >>
    /\ calls = << >>
    /\ response = NoResponse
    /\ \E h \in LbSides, w \in LbSides :
          /\ lb_image = << h, w >>
          /\ \E x \in LbCoords(w), y \in LbCoords(h) : lb_point = << x, y >>
    /\ lb_stage = "original"
    /\ lb_tensor = << 0, 0 >>
    /\ lb_back = << 0, 0 >>
    /\ mono_image = "none"
    /\ mono_iou = 0
    /\ mono_runs = << >>
    /\ agg_sdet = << >>
    /\ agg_boxes = << >>
    /\ agg_emotions = << >>
    /\ agg_stage = "off"
    /\ agg_out = << >>
    /\ threads = << >>

\* lines 56-69: the point's place in the padded tensor (numerators over w and h)
lb_forward ==
    /\ lb_stage = "original"
    /\ LET h == lb_image[1]
           w == lb_image[2]
           t == preprocess_image(h, w)
       IN  lb_tensor' = << ForwardCoord(lb_point[1], w, t.new_w, t.left),
                           ForwardCoord(lb_point[2], h, t.new_h, t.top) >>
    /\ lb_stage' = "tensor"
    /\ UNCHANGED <<server_vars, mono_vars, agg_vars, conc_vars, lb_image, lb_point, lb_back>>

\* line 97: the inverse transform of the tensor-space point
lb_inverse ==
    /\ lb_stage = "tensor"
    /\ LET h == lb_image[1]
           w == lb_image[2]
           t == preprocess_image(h, w)
       IN  lb_back' = << InverseCoord(lb_tensor[1], w, t.left, t.max_side),
                         InverseCoord(lb_tensor[2], h, t.top, t.max_side) >>
    /\ lb_stage' = "back"
    /\ UNCHANGED <<server_vars, mono_vars, agg_vars, conc_vars, lb_image, lb_point, lb_tensor>>

LbNext == lb_forward \/ lb_inverse

SpecLetterbox == LbInit /\ [][LbNext]_vars

Abs(v) == IF v < 0 THEN -v ELSE v

\* C10: a point of the original image, mapped forward through
\* preprocess_image's transform (resize to int(w*r) x int(h*r), left/top pad)
\* and back through the inverse transform (subtract the pad, divide by r,
\* round), lands within 1 pixel of where it started.
C10_RoundTripWithinOnePixel ==
    lb_stage = "back" =>
        /\ Abs(lb_back[1] - lb_point[1]) <= 1
        /\ Abs(lb_back[2] - lb_point[2]) <= 1

----------------------------------------------------------------------------
(* The aggregation study: lines 110-123 of detect_faces_and_emotions on the  *)
(* crops of one image, for whatever list detect_emotion hands back.          *)

AggConfs == {20, 55}

\* What the classifier may return for the crops: its results for the first n
\* crops (all of them, or fewer), or one result too many.
ClassifierReturns(boxes) ==
    LET proper == detect_emotion(boxes, TRUE)
    IN  {SubSeq(proper, 1, n) : n \in 0..Len(proper)}
        \cup {Append(proper, EmotionOf(<< 0, 0, 0, 0 >>, TRUE))}

AggInit ==
    /\ face_model = "loaded"
    /\ device = "cpu"
    /\ main_pc = "study"
    /\ request = NoRequest
    /\ handler_pc = "idle"
    /\ i = 0
    /\ all_results = << >>
    /\ calls = << >>
    /\ response = NoResponse
    /\ lb_image = << 0, 0 >>
    /\ lb_point = << 0, 0 >>
    /\ lb_stage = "off"
    /\ lb_tensor = << 0, 0 >>
    /\ lb_back = << 0, 0 >>
    /\ mono_image = "none"
    /\ mono_iou = 0
    /\ mono_runs = << >>
    /\ \E image \in MonoImages, c \in AggConfs, u \in MonoIous :
          LET sdet == ScaledDet(image, NmsCall(image.cands, c, u))
              face_boxes == FaceBoxes(image, sdet)
          IN  /\ face_boxes # << >>          \* line 111: if face_images
              /\ agg_sdet = sdet
              /\ agg_boxes = face_boxes
              /\ agg_emotions \in
                    ClassifierReturns([k \in 1..Len(face_boxes) |-> face_boxes[k].box])
    /\ agg_stage = "classified"
    /\ agg_out = NotRun
    /\ threads = << >>

\* lines 114-123: the records built from face_boxes and emotions, returned
agg_combine ==
    /\ agg_stage = "classified"
    /\ agg_out' = Returned(Combine(agg_sdet, agg_boxes, agg_emotions))
    /\ agg_stage' = "combined"
    /\ UNCHANGED <<server_vars, lb_vars, mono_vars, conc_vars,
                   agg_sdet, agg_boxes, agg_emotions>>

AggNext == agg_combine

SpecAgg == AggInit /\ [][AggNext]_vars

\* C11: when the list of emotion results and the list of face boxes differ in
\* length, the aggregation fails with a processing error; it never cuts the
\* records to the shorter list, and never returns fewer records than crops.
C11_LengthMismatchFailsFast ==
    agg_stage = "combined" =>
        /\ Len(agg_emotions) # Len(agg_boxes) => agg_out.raised
        /\ ~agg_out.raised => Len(agg_out.results) >= Len(agg_boxes)

----------------------------------------------------------------------------
(* The concurrency study.  app.run (line 239) starts the development server  *)
(* without threaded=False: every request is handled in a thread of its own,  *)
(* and the handlers take no lock.  A thread's position is followed through   *)
(* detect_faces_and_emotions, image by image.                                *)

\* Requests handled at the same time in the model.
MaxThreads == 2

Threads == 1..MaxThreads

IdleThread == [pc |-> "idle", endpoint |-> "none", todo |-> 0, image |-> "none"]

\* Inside a call into the detector (lines 89-90) or the classifier (line 112).
InInference(t) == threads[t].pc \in {"detector", "classifier"}

ConcInit ==
    /\ face_model = "loaded"
    /\ device = "cpu"
    /\ main_pc = "serving"
    /\ request = NoRequest
    /\ handler_pc = "idle"
    /\ i = 0
    /\ all_results = << >>
    /\ calls = << >>
    /\ response = NoResponse
    /\ lb_image = << 0, 0 >>
    /\ lb_point = << 0, 0 >>
    /\ lb_stage = "off"
    /\ lb_tensor = << 0, 0 >>
    /\ lb_back = << 0, 0 >>
    /\ mono_image = "none"
    /\ mono_iou = 0
    /\ mono_runs = << >>
    /\ agg_sdet = << >>
    /\ agg_boxes = << >>
    /\ agg_emotions = << >>
    /\ agg_stage = "off"
    /\ agg_out = << >>
    /\ threads = [t \in Threads |-> IdleThread]

ConcUnchanged == UNCHANGED <<server_vars, lb_vars, mono_vars, agg_vars>>

\* The image is done (its records returned, or its exception caught): the
\* batch loop goes to the next image, the handler to its response.
ImageDone(th) ==
    [th EXCEPT !.todo = th.todo - 1,
               !.image = "none",
               !.pc = IF th.todo - 1 = 0 THEN "respond" ELSE "decode"]

\* A request arrives and gets a thread: /detect with one image, /detect_batch
\* with a list of images.
conc_accept(t) ==
    /\ threads[t].pc = "idle"
    /\ \/ threads' = [threads EXCEPT ![t] =
                        [pc |-> "decode", endpoint |-> "detect", todo |-> 1,
                         image |-> "none"]]
       \/ \E n \in 0..MaxBatch :
             threads' = [threads EXCEPT ![t] =
                            [pc |-> IF n = 0 THEN "respond" ELSE "decode",
                             endpoint |-> "detect_batch", todo |-> n,
                             image |-> "none"]]
    /\ ConcUnchanged

\* lines 143-159 and 84-85: the image is decoded and preprocessed, or the
\* exception of a bad image ends its processing
conc_preprocess(t) ==
    /\ threads[t].pc = "decode"
    /\ \/ \E img \in {"faces", "no_faces"} :
             threads' = [threads EXCEPT ![t].pc = "preprocessed", ![t].image = img]
       \/ threads' = [threads EXCEPT ![t] = ImageDone(threads[t])]
    /\ ConcUnchanged

\* line 89: face_model(img) is entered
conc_enter_detector(t) ==
    /\ threads[t].pc = "preprocessed"
    /\ threads' = [threads EXCEPT ![t].pc = "detector"]
    /\ ConcUnchanged

\* line 90: non_max_suppression has returned
conc_leave_detector(t) ==
    /\ threads[t].pc = "detector"
    /\ threads' = [threads EXCEPT ![t].pc = "crops"]
    /\ ConcUnchanged

\* lines 94-111 with no face crop: the empty list is returned
conc_return_empty(t) ==
    /\ threads[t].pc = "crops"
    /\ threads[t].image = "no_faces"
    /\ threads' = [threads EXCEPT ![t] = ImageDone(threads[t])]
    /\ ConcUnchanged

\* line 112: detect_emotion is entered
conc_enter_classifier(t) ==
    /\ threads[t].pc = "crops"
    /\ threads[t].image = "faces"
    /\ threads' = [threads EXCEPT ![t].pc = "classifier"]
    /\ ConcUnchanged

\* lines 112-123: detect_emotion has returned, the records are returned
conc_leave_classifier(t) ==
    /\ threads[t].pc = "classifier"
    /\ threads' = [threads EXCEPT ![t] = ImageDone(threads[t])]
    /\ ConcUnchanged

\* The handler returns its response; the thread ends.
conc_respond(t) ==
    /\ threads[t].pc = "respond"
    /\ threads' = [threads EXCEPT ![t] = IdleThread]
    /\ ConcUnchanged

ConcNext ==
    \E t \in Threads :
        \/ conc_accept(t)
        \/ conc_preprocess(t)
        \/ conc_enter_detector(t)
        \/ conc_leave_detector(t)
        \/ conc_return_empty(t)
        \/ conc_enter_classifier(t)
        \/ conc_leave_classifier(t)
        \/ conc_respond(t)

SpecConc == ConcInit /\ [][ConcNext]_vars

\* C12: the calls into the detector and the emotion classifier are serialized
\* across requests: whatever the interleaving of /detect and /detect_batch
\* requests handled at the same time, at most one of them is inside a
\* model-inference call.
C12_InferenceSerialized ==
    Cardinality({t \in Threads : InInference(t)}) <= 1

====
